---- MODULE Spec2Model ----
(***************************************************************************)
(* Model of src/File_Validation.py: the process_files request handler, the *)
(* validators it calls, read_txt_file and the ValidationResults table that *)
(* insert_validation_result appends to.                                    *)
(*                                                                         *)
(* Text is modelled as a sequence of tokens (one-character strings for     *)
(* file names and declared types, cell atoms and delimiter characters for  *)
(* file contents), so that splitting, lower-casing and matching are        *)
(* computed and not assumed.                                               *)
(***************************************************************************)
EXTENDS Integers, Sequences, FiniteSets, TLC

\* ------------------------------------------------------------------ bounds
\* Largest number of data lines (lines after the header line) of an upload.
MaxRows == 1
\* Byte lengths range over FileSizeLimitBytes - SizeSlack .. + SizeSlack.
SizeSlack == 1

\* The most requests in flight at once.
MaxRuns == 2

\* ------------------------------------------------------------- characters
TAB == "\t"
COMMA == ","
SPACE == " "
\* The marks that end every verdict message.
CHECK == "[ok]"
CROSS == "[x]"

UpperChars == <<"A","B","C","D","E","F","G","H","I","J","K","L","M",
                "N","O","P","Q","R","S","T","U","V","W","X","Y","Z">>
LowerChars == <<"a","b","c","d","e","f","g","h","i","j","k","l","m",
                "n","o","p","q","r","s","t","u","v","w","x","y","z">>
Digits == {"0","1","2","3","4","5","6","7","8","9"}

Range(s) == {s[i] : i \in 1..Len(s)}

SetMax(S) == CHOOSE x \in S : \A y \in S : y <= x

\* str.lower() on one character, then on a string.
UpperToLower ==
    [u \in Range(UpperChars) |->
        LowerChars[CHOOSE i \in 1..Len(UpperChars) : UpperChars[i] = u]]

lower_char(c) == IF c \in DOMAIN UpperToLower THEN UpperToLower[c] ELSE c

str_lower(s) == [i \in 1..Len(s) |-> lower_char(s[i])]

\* str.rfind: the last index of c in s, 0 when absent (Python's -1, 1-based).
rfind(s, c) ==
    LET I == {i \in 1..Len(s) : s[i] = c}
    IN  IF I = {} THEN 0 ELSE SetMax(I)

\* os.path.splitext: <<root, ext>>; the extension starts at the last dot of
\* the last path component, and leading dots of that component are not an
\* extension.
splitext(p) ==
    LET sepIndex == rfind(p, "/")
        dotIndex == rfind(p, ".")
    IN  IF /\ dotIndex > sepIndex
           /\ \E i \in (sepIndex + 1)..(dotIndex - 1) : p[i] # "."
        THEN <<SubSeq(p, 1, dotIndex - 1), SubSeq(p, dotIndex, Len(p))>>
        ELSE <<p, <<>>>>

\* s[1:]
DropFirst(s) == IF s = <<>> THEN <<>> ELSE Tail(s)

\* ------------------------------------------------------ program constants
ALLOWED_HEADERS ==
    << <<"CUSTOMER">>, <<"ADDRESS">>, <<"PRODUCT">>, <<"PRODUCT_TYPE">>, <<"PRICE">> >>

\* file_size_kb <= 10 with file_size_kb = bytes / 1024.
SizeLimitKb == 10
BytesPerKb == 1024
FileSizeLimitBytes == SizeLimitKb * BytesPerKb

\* The default of read_txt_file's delimiters parameter.
delimiters == <<TAB, COMMA, SPACE>>

\* ------------------------------------------------------------- validators
\* '❌' in result
HasCross(result) == \E i \in 1..Len(result) : result[i] = CROSS

\* re.match(r"^[a-zA-Z0-9 ]+$", base_name): one or more characters of the
\* class; $ also matches before one trailing newline.
NameChar(c) == c \in Range(UpperChars) \cup Range(LowerChars) \cup Digits \cup {SPACE}

NamePatternMatches(base_name) ==
    LET body == IF base_name # <<>> /\ base_name[Len(base_name)] = "\n"
                THEN SubSeq(base_name, 1, Len(base_name) - 1)
                ELSE base_name
    IN  /\ body # <<>>
        /\ \A i \in 1..Len(body) : NameChar(body[i])

validate_file_name(file_name) ==
    LET base_name == splitext(file_name)[1]
    IN  IF NamePatternMatches(base_name)
        THEN <<"File name is valid. ", CHECK>>
        ELSE <<"File name is invalid. ", CROSS>>

\* Mutant: the limit itself is refused.
validate_file_size_Strict(byte_length) ==
    IF byte_length < SizeLimitKb * BytesPerKb
    THEN <<"File size is valid. ", CHECK>>
    ELSE <<"File size must be under 10 KB. ", CROSS>>

\* byte_length is what tell() returns after seek(0, os.SEEK_END).
validate_file_size(byte_length) ==
    IF byte_length <= SizeLimitKb * BytesPerKb
    THEN <<"File size is valid. ", CHECK>>
    ELSE <<"File size must be under 10 KB. ", CROSS>>

\* Mutant: the names are compared as a set.
validate_headers_AsSet(data) ==
    IF {data.columns[i] : i \in 1..Len(data.columns)}
          = {ALLOWED_HEADERS[i] : i \in 1..Len(ALLOWED_HEADERS)}
    THEN <<"Headers matched. ", CHECK>>
    ELSE <<"Headers are not matching. ", CROSS>>

validate_headers(data) ==
    IF data.columns = ALLOWED_HEADERS
    THEN <<"Headers matched. ", CHECK>>
    ELSE <<"Headers are not matching. ", CROSS>>

\* pandas reads an empty field, and the default NA markers, as a missing value.
IsNull(cell) == cell = <<>> \/ cell = <<"NA">>

\* Mutant: only a table whose every cell is missing is reported.
check_null_values_All(data) ==
    IF /\ data.rows # <<>>
       /\ \A i \in 1..Len(data.rows) :
             \A j \in 1..Len(data.rows[i]) : IsNull(data.rows[i][j])
    THEN <<"Uploaded file contains null values. ", CROSS>>
    ELSE <<"Uploaded file does not contain null values. ", CHECK>>

check_null_values(data) ==
    IF \E i \in 1..Len(data.rows) :
          \E j \in 1..Len(data.rows[i]) : IsNull(data.rows[i][j])
    THEN <<"Uploaded file contains null values. ", CROSS>>
    ELSE <<"Uploaded file does not contain null values. ", CHECK>>

\* A cell that replace(r'^\s*$', pd.NA, regex=True) leaves missing.
IsBlank(cell) ==
    \/ IsNull(cell)
    \/ \A k \in 1..Len(cell) : cell[k] \in {SPACE, TAB}

\* Mutant: whitespace-only cells are not replaced before the rows are dropped.
check_empty_rows_NullOnly(data) ==
    LET kept == {i \in 1..Len(data.rows) :
                    \E j \in 1..Len(data.rows[i]) : ~IsNull(data.rows[i][j])}
    IN  IF Cardinality(kept) < Len(data.rows)
        THEN <<"Uploaded file contains empty rows. ", CROSS>>
        ELSE <<"Uploaded file does not contain empty rows. ", CHECK>>

\* dropna(how='all') drops the rows whose every cell is missing.
check_empty_rows(data) ==
    LET kept == {i \in 1..Len(data.rows) :
                    \E j \in 1..Len(data.rows[i]) : ~IsBlank(data.rows[i][j])}
    IN  IF Cardinality(kept) < Len(data.rows)
        THEN <<"Uploaded file contains empty rows. ", CROSS>>
        ELSE <<"Uploaded file does not contain empty rows. ", CHECK>>

\* ----------------------------------------------------------------- parser
\* One line split at every occurrence of the delimiter d.
split(line, d) ==
    LET at == {i \in 1..Len(line) : line[i] = d}
        n == Cardinality(at)
        \* the k-th occurrence of d; the line's two ends for k = 0 and n + 1
        cut(k) == IF k = 0 THEN 0
                  ELSE IF k = n + 1 THEN Len(line) + 1
                  ELSE CHOOSE i \in at : Cardinality({j \in at : j < i}) = k - 1
    IN  [k \in 1..(n + 1) |-> SubSeq(line, cut(k - 1) + 1, cut(k) - 1)]

\* The header line's fields as column names: an empty name becomes
\* "Unnamed: <index>", a repeated name gets the suffix .<count>.
column_names(fields) ==
    [i \in 1..Len(fields) |->
        LET seen == Cardinality({j \in 1..(i - 1) : fields[j] = fields[i]})
        IN  IF fields[i] = <<>> THEN <<"Unnamed: ", ToString(i - 1)>>
            ELSE IF seen > 0 THEN fields[i] \o <<".", ToString(seen)>>
            ELSE fields[i]]

NoFrame == [raised |-> "none", columns |-> <<>>, rows |-> <<>>]

\* pd.read_csv(file, delimiter=d, skip_blank_lines=False) on the lines that
\* remain in the stream.  The first line is the header.  The first data line
\* fixes the table width (fields beyond the header are leading index
\* columns); a shorter line is padded with missing cells, a blank line is a
\* row of missing cells, a later line that is longer raises ParserError, and
\* an empty stream raises EmptyDataError.
FrameOf(fields) ==
    LET header == column_names(fields[1])
        n == Len(header)
        width == IF Len(fields) >= 2 /\ Len(fields[2]) > n THEN Len(fields[2]) ELSE n
        lead == width - n
        pad(f) == f \o [j \in 1..(width - Len(f)) |-> <<>>]
        row(i) == SubSeq(pad(fields[i]), lead + 1, width)
    IN  IF \E i \in 3..Len(fields) : Len(fields[i]) > width
        THEN [NoFrame EXCEPT !.raised = "ParserError"]
        ELSE [raised |-> "none",
              columns |-> header,
              rows |-> [i \in 1..(Len(fields) - 1) |-> row(i + 1)]]

pd_read_csv(lines, d) ==
    IF lines = <<>>
    THEN [NoFrame EXCEPT !.raised = "EmptyDataError"]
    ELSE \* every line is split once, the frame is built from the fields
         CHOOSE frame \in {FrameOf(fields) :
                              fields \in {[i \in 1..Len(lines) |-> split(lines[i], d)]}} : TRUE

\* What a read at stream position pos sees: everything from position 0,
\* nothing once the stream has been read to its end.
Remaining(file) == IF file.pos = 0 THEN file.content ELSE <<>>

\* Mutant: the stream is not rewound.
seek0_NoRewind(file) == file

\* file.seek(0)
seek0(file) == [file EXCEPT !.pos = 0]

\* The stream after a read or a seek(0, os.SEEK_END): positioned at its end.
AtEnd(file) == [file EXCEPT !.pos = file.size]

\* ----------------------------------------------------------------- inputs
\* Declared types a caller can send in the file_type query parameter.
FileTypes ==
    { <<"c","s","v">>, <<"t","x","t">>, <<"C","S","V">>,
      <<"j","s","o","n">>, <<>> }

\* Upload names: R1.csv, b@d.csv, R1.CSV, "a b.txt", a.b.txt, d.json, noext, .csv,
\* and a name whose base ends in a newline.
FileNames ==
    { <<"R","1",".","c","s","v">>,
      <<"b","@","d",".","c","s","v">>,
      <<"R","1",".","C","S","V">>,
      <<"a"," ","b",".","t","x","t">>,
      <<"a",".","b",".","t","x","t">>,
      <<"d",".","j","s","o","n">>,
      <<"n","o","e","x","t">>,
      <<".","c","s","v">>,
      <<"a","\n",".","c","s","v">> }

ByteLengths == (FileSizeLimitBytes - SizeSlack)..(FileSizeLimitBytes + SizeSlack)

\* Header lines: the required one, two names swapped, one name in lower
\* case, one name missing, one name too many.
HeaderLines ==
    { ALLOWED_HEADERS,
      << <<"ADDRESS">>, <<"CUSTOMER">>, <<"PRODUCT">>, <<"PRODUCT_TYPE">>, <<"PRICE">> >>,
      << <<"customer">>, <<"ADDRESS">>, <<"PRODUCT">>, <<"PRODUCT_TYPE">>, <<"PRICE">> >>,
      << <<"CUSTOMER">>, <<"ADDRESS">>, <<"PRODUCT">>, <<"PRICE">> >>,
      << <<"CUSTOMER">>, <<"ADDRESS">>, <<"PRODUCT">>, <<"PRODUCT_TYPE">>, <<"PRICE">>,
         <<"NOTE">> >> }

RowKinds == {"full", "null", "blank", "ws", "long"}

\* A whitespace character that is not the delimiter d.
Whitespace(d) == IF d = SPACE THEN TAB ELSE SPACE

\* The fields of a data line of each kind, written for delimiter d.
RowFields(kind, d) ==
    CASE kind = "full"  -> << <<"x">>, <<"x">>, <<"x">>, <<"x">>, <<"1">> >>
      [] kind = "null"  -> << <<"x">>, <<>>, <<"x">>, <<"x">>, <<"1">> >>
      [] kind = "ws"    -> [j \in 1..5 |-> <<Whitespace(d)>>]
      [] kind = "long"  -> << <<"x">>, <<"x">>, <<"x">>, <<"x">>, <<"1">>, <<"x">> >>
      [] kind = "blank" -> <<>>

\* Fields joined by the delimiter d into one line.
RECURSIVE Join(_, _)
Join(fields, d) ==
    IF fields = <<>> THEN <<>>
    ELSE IF Len(fields) = 1 THEN fields[1]
    ELSE fields[1] \o <<d>> \o Join(Tail(fields), d)

Bodies == UNION {[1..n -> RowKinds] : n \in 0..MaxRows}

\* The lines of an upload written with delimiter d.
Content(header, body, d) ==
    <<Join(header, d)>> \o [i \in 1..Len(body) |-> Join(RowFields(body[i], d), d)]

\* A data line longer than the one before it, which pandas cannot tokenize.
Ragged == <<"full", "long">>

\* A space-delimited upload whose second data line holds tabs: read with tab
\* it cannot be tokenized, read with space it has the required columns.
RaisesUnderTab == Content(ALLOWED_HEADERS, <<"full", "ws">>, SPACE)

Contents ==
    {Content(h, b, delimiters[k]) : h \in HeaderLines, b \in Bodies, k \in 1..Len(delimiters)}
    \cup {Content(ALLOWED_HEADERS, Ragged, delimiters[k]) : k \in 1..Len(delimiters)}
    \cup {RaisesUnderTab}

\* The UploadFile objects a request can carry; the empty file has no bytes.
Uploads ==
    {[filename |-> f, size |-> n, content |-> c, pos |-> 0] :
        f \in FileNames, n \in ByteLengths, c \in Contents}
    \cup {[filename |-> f, size |-> 0, content |-> <<>>, pos |-> 0] : f \in FileNames}

\* ------------------------------------------------------------------ state
VARIABLES
    runs,                \* the process_files invocations of this behaviour
    file_type,           \* run -> declared type
    report_file,         \* run -> UploadFile: filename, size, content, stream position
    pc,                  \* run -> position in process_files
    file_extension,      \* run -> local file_extension
    verdict,             \* run -> the message just produced, about to be inserted
    validation_results,  \* run -> local list validation_results
    data,                \* run -> local data (a DataFrame once bound)
    di,                  \* run -> index of read_txt_file's loop over delimiters
    vi,                  \* run -> index of the loop over validation_results (l.144)
    exc,                 \* run -> the exception caught by the handler, or "none"
    response,            \* run -> the JSONResponse returned
    read_calls,          \* run -> the pd.read_csv calls made: <<delimiter, position>>
    ValidationResults    \* the database table: rows in insertion order

vars == <<runs, file_type, report_file, pc, file_extension, verdict,
          validation_results, data, di, vi, exc, response, read_calls,
          ValidationResults>>

NoData == [bound |-> FALSE, columns |-> <<>>, rows |-> <<>>]
DataFrame(res) == [bound |-> TRUE, columns |-> res.columns, rows |-> res.rows]
NoResponse == [key |-> "none", content |-> <<>>]

InitRuns(R) ==
    /\ runs = R
    /\ file_type \in [R -> FileTypes]
    /\ report_file \in [R -> Uploads]
    /\ pc = [r \in R |-> "start"]
    /\ file_extension = [r \in R |-> <<>>]
    /\ verdict = [r \in R |-> <<>>]
    /\ validation_results = [r \in R |-> <<>>]
    /\ data = [r \in R |-> NoData]
    /\ di = [r \in R |-> 0]
    /\ vi = [r \in R |-> 0]
    /\ exc = [r \in R |-> "none"]
    /\ response = [r \in R |-> NoResponse]
    /\ read_calls = [r \in R |-> <<>>]
    /\ ValidationResults = <<>>

Init == InitRuns({1})

\* ------------------------------------------------------ process_files parts
\* os.path.splitext(report_file.filename)[1][1:].lower()
FileExtension(filename) == str_lower(DropFirst(splitext(filename)[2]))

\* Mutant: the extension is only checked to be a supported one.
TypeMismatch_SupportedOnly(extension, declared) ==
    extension \notin {<<"c","s","v">>, <<"t","x","t">>}

\* file_extension != file_type
TypeMismatch(extension, declared) == extension # declared

MismatchMessage(declared) ==
    <<"File type mismatch. Expected ">> \o declared \o <<" file. ", CROSS>>

\* Mutant: the insert is never committed.
insert_validation_result_NoCommit(table, r, file_name, validation_rule, result) == table

\* A committed INSERT INTO ValidationResults: one more row of the table.  The
\* run is not a column of the table; it tells the rows of two runs apart.
insert_validation_result(table, r, file_name, validation_rule, result) ==
    Append(table, [run |-> r, file_name |-> file_name,
                   validation_rule |-> validation_rule, result |-> result])

\* Mutant: validation_results is one list shared by all runs.
append_result_Shared(results, r, result) ==
    [q \in DOMAIN results |-> Append(results[q], result)]

\* validation_results.append(result) on the list local to run r.
append_result(results, r, result) == [results EXCEPT ![r] = Append(@, result)]

\* The insert statements of the five rules and the statement each is
\* followed by.
InsertPcs == {"ins_name", "ins_size", "ins_headers", "ins_nulls", "ins_empty"}

RuleName(at) ==
    CASE at = "ins_name"    -> "File Name"
      [] at = "ins_size"    -> "File Size"
      [] at = "ins_headers" -> "Headers"
      [] at = "ins_nulls"   -> "Null Values"
      [] at = "ins_empty"   -> "Empty Rows"

\* Mutant: a failing verdict ends the pipeline; the later rules are skipped.
AfterInsert_ShortCircuit(at, result) ==
    IF HasCross(result) THEN "aggregate"
    ELSE CASE at = "ins_name"    -> "size"
           [] at = "ins_size"    -> "read"
           [] at = "ins_headers" -> "nulls"
           [] at = "ins_nulls"   -> "empty"
           [] at = "ins_empty"   -> "aggregate"

AfterInsert(at, result) ==
    CASE at = "ins_name"    -> "size"
      [] at = "ins_size"    -> "read"
      [] at = "ins_headers" -> "nulls"
      [] at = "ins_nulls"   -> "empty"
      [] at = "ins_empty"   -> "aggregate"

\* Mutant: only the last result decides.
AnyFailed_LastOnly(results) == results # <<>> /\ HasCross(results[Len(results)])

\* any("❌" in result for result in validation_results)
AnyFailed(results) == \E i \in 1..Len(results) : HasCross(results[i])

RECURSIVE ListItems(_)
ListItems(results) ==
    IF results = <<>> THEN <<>>
    ELSE <<"<li>">> \o Head(results) \o <<"</li>">> \o ListItems(Tail(results))

\* The results for which '❌' in result, in order.
RECURSIVE Failing(_)
Failing(results) ==
    IF results = <<>> THEN <<>>
    ELSE IF HasCross(Head(results)) THEN <<Head(results)>> \o Failing(Tail(results))
    ELSE Failing(Tail(results))

\* Mutant: the rejection lists every result, passing ones included.
RejectedResponse_AllResults(results) ==
    [key |-> "error", content |-> <<"File Rejected:">> \o ListItems(results)]

RejectedResponse(results) ==
    [key |-> "error", content |-> <<"File Rejected:">> \o ListItems(Failing(results))]

AcceptedResponse(results) ==
    [key |-> "message", content |-> <<"File Validation Results:">> \o ListItems(results)]

\* The exception classes that except ValueError catches.
ValueErrors == {"ValueError", "EmptyDataError", "ParserError"}

ExceptionText(type) ==
    CASE type = "ValueError" ->
            <<"Failed to parse the .txt file with common delimiters (tab, comma, space).">>
      [] type = "EmptyDataError" -> <<"No columns to parse from file">>
      [] type = "ParserError" -> <<"Error tokenizing data.">>
      [] type = "UnboundLocalError" ->
            <<"local variable 'data' referenced before assignment">>
      [] type = "pyodbc.Error" -> <<"pyodbc.Error">>

\* Mutant: a ValueError is reported under the key of a success.
HandlerResponse_AsMessage(type) ==
    IF type \in ValueErrors
    THEN [key |-> "message", content |-> ExceptionText(type) \o <<" ", CROSS>>]
    ELSE [key |-> "error",
          content |-> <<"An unexpected error occurred: ">> \o ExceptionText(type)
                      \o <<" ", CROSS>>]

\* Mutant: only ValueError has an except clause; anything else leaves the
\* handler without a response.
HandlerResponse_ValueErrorOnly(type) ==
    IF type \in ValueErrors
    THEN [key |-> "error", content |-> ExceptionText(type) \o <<" ", CROSS>>]
    ELSE NoResponse

\* The two except clauses of process_files.
HandlerResponse(type) ==
    IF type \in ValueErrors
    THEN [key |-> "error", content |-> ExceptionText(type) \o <<" ", CROSS>>]
    ELSE [key |-> "error",
          content |-> <<"An unexpected error occurred: ">> \o ExceptionText(type)
                      \o <<" ", CROSS>>]

\* Mutant: the frame of the first call that does not raise is returned,
\* whatever its columns.
TableAccepted_AnyColumns(res) == res.raised = "none"

\* l.74-76: read_txt_file returns the frame of a call that did not raise and
\* whose columns are the required ones.
TableAccepted(res) == res.raised = "none" /\ res.columns = ALLOWED_HEADERS

\* Mutant: an exception raised by an insert is swallowed and the pipeline
\* goes on with the next statement.
HandlerExit_Resume(at) ==
    IF at \in InsertPcs THEN AfterInsert(at, <<>>) ELSE "done"

\* Where control is once an exception raised at statement `at` has been
\* handled: both except clauses return, so the run is over.
HandlerExit(at) == "done"

\* ---------------------------------------------------------------- actions
\* An exception of class type leaves the try block of run r: the handler
\* builds the response and the run ends.
Raise(r, type) ==
    /\ exc' = [exc EXCEPT ![r] = type]
    /\ response' = [response EXCEPT ![r] = HandlerResponse(type)]
    /\ pc' = [pc EXCEPT ![r] = HandlerExit(pc[r])]

\* l.94-96, 100: the extension check.
CheckExtension(r) ==
    /\ pc[r] = "start"
    /\ LET extension == FileExtension(report_file[r].filename)
       IN  /\ file_extension' = [file_extension EXCEPT ![r] = extension]
           /\ IF TypeMismatch(extension, file_type[r])
              THEN /\ verdict' = [verdict EXCEPT ![r] = MismatchMessage(file_type[r])]
                   /\ pc' = [pc EXCEPT ![r] = "ins_type"]
              ELSE /\ verdict' = verdict
                   /\ pc' = [pc EXCEPT ![r] = "name"]
    /\ UNCHANGED <<runs, file_type, report_file, validation_results, data, di, vi,
                   exc, response, read_calls, ValidationResults>>

\* l.97-98: the mismatch is recorded and returned.
InsertMismatch(r) ==
    /\ pc[r] = "ins_type"
    /\ ValidationResults' =
          insert_validation_result(ValidationResults, r, report_file[r].filename,
                                   "File Type", verdict[r])
    /\ response' = [response EXCEPT ![r] = [key |-> "error", content |-> verdict[r]]]
    /\ pc' = [pc EXCEPT ![r] = "done"]
    /\ UNCHANGED <<runs, file_type, report_file, file_extension, verdict,
                   validation_results, data, di, vi, exc, read_calls>>

\* l.103
ValidateFileName(r) ==
    /\ pc[r] = "name"
    /\ verdict' = [verdict EXCEPT ![r] = validate_file_name(report_file[r].filename)]
    /\ pc' = [pc EXCEPT ![r] = "ins_name"]
    /\ UNCHANGED <<runs, file_type, report_file, file_extension, validation_results,
                   data, di, vi, exc, response, read_calls, ValidationResults>>

\* l.108: seek to the end, tell, seek(0).
ValidateFileSize(r) ==
    /\ pc[r] = "size"
    /\ verdict' = [verdict EXCEPT ![r] = validate_file_size(AtEnd(report_file[r]).pos)]
    /\ report_file' = [report_file EXCEPT ![r] = seek0(AtEnd(report_file[r]))]
    /\ pc' = [pc EXCEPT ![r] = "ins_size"]
    /\ UNCHANGED <<runs, file_type, file_extension, validation_results, data, di, vi,
                   exc, response, read_calls, ValidationResults>>

\* l.104-105, 109-110, 120-121, 125-126, 130-131: the verdict is inserted,
\* then appended to validation_results.
InsertVerdict(r) ==
    /\ pc[r] \in InsertPcs
    /\ ValidationResults' =
          insert_validation_result(ValidationResults, r, report_file[r].filename,
                                   RuleName(pc[r]), verdict[r])
    /\ validation_results' = append_result(validation_results, r, verdict[r])
    /\ pc' = [pc EXCEPT ![r] = AfterInsert(pc[r], verdict[r])]
    /\ UNCHANGED <<runs, file_type, report_file, file_extension, verdict, data, di, vi,
                   exc, response, read_calls>>

\* l.83-88 raising (no connection, a failed execute or commit): nothing is
\* committed and the exception reaches except Exception.
InsertFails(r) ==
    /\ \/ pc[r] \in InsertPcs \cup {"ins_type"}
       \/ pc[r] = "second_pass" /\ vi[r] <= Len(validation_results[r])
    /\ Raise(r, "pyodbc.Error")
    /\ UNCHANGED <<runs, file_type, report_file, file_extension, verdict,
                   validation_results, data, di, vi, read_calls, ValidationResults>>

\* One pd.read_csv call on the stream of run r with delimiter d: the call is
\* logged with the position it starts from, and the stream is read to its end.
ReadCall(r, file, d) ==
    /\ read_calls' = [read_calls EXCEPT ![r] =
                         Append(@, [delimiter |-> d, pos |-> file.pos])]
    /\ report_file' = [report_file EXCEPT ![r] = AtEnd(file)]

\* l.113-114: a csv upload is read as comma-delimited; a pandas error is a
\* ValueError.
ReadCsv(r) ==
    /\ pc[r] = "read"
    /\ file_extension[r] = <<"c","s","v">>
    /\ LET res == pd_read_csv(Remaining(report_file[r]), COMMA)
       IN  /\ ReadCall(r, report_file[r], COMMA)
           /\ IF res.raised = "none"
              THEN /\ data' = [data EXCEPT ![r] = DataFrame(res)]
                   /\ pc' = [pc EXCEPT ![r] = "headers"]
                   /\ UNCHANGED <<exc, response>>
              ELSE /\ Raise(r, res.raised)
                   /\ data' = data
    /\ UNCHANGED <<runs, file_type, file_extension, verdict, validation_results,
                   di, vi, ValidationResults>>

\* l.115-116, 71: read_txt_file is entered, its loop at the first delimiter.
EnterReadTxt(r) ==
    /\ pc[r] = "read"
    /\ file_extension[r] = <<"t","x","t">>
    /\ di' = [di EXCEPT ![r] = 1]
    /\ pc' = [pc EXCEPT ![r] = "txt_try"]
    /\ UNCHANGED <<runs, file_type, report_file, file_extension, verdict,
                   validation_results, data, vi, exc, response, read_calls,
                   ValidationResults>>

\* l.113-116 with neither branch taken: data stays unbound.
SkipRead(r) ==
    /\ pc[r] = "read"
    /\ file_extension[r] \notin {<<"c","s","v">>, <<"t","x","t">>}
    /\ pc' = [pc EXCEPT ![r] = "headers"]
    /\ UNCHANGED <<runs, file_type, report_file, file_extension, verdict,
                   validation_results, data, di, vi, exc, response, read_calls,
                   ValidationResults>>

\* l.72-78: one pass of the loop: rewind, read with the next delimiter, return
\* the frame when its columns are the required ones, go on to the next
\* delimiter otherwise (other columns, or an exception that is swallowed).
TryDelimiter(r) ==
    /\ pc[r] = "txt_try"
    /\ di[r] <= Len(delimiters)
    /\ LET d == delimiters[di[r]]
           file == seek0(report_file[r])
           res == pd_read_csv(Remaining(file), d)
       IN  /\ ReadCall(r, file, d)
           /\ IF TableAccepted(res)
              THEN /\ data' = [data EXCEPT ![r] = DataFrame(res)]
                   /\ pc' = [pc EXCEPT ![r] = "headers"]
                   /\ di' = di
              ELSE /\ di' = [di EXCEPT ![r] = @ + 1]
                   /\ UNCHANGED <<data, pc>>
    /\ UNCHANGED <<runs, file_type, file_extension, verdict, validation_results,
                   vi, exc, response, ValidationResults>>

\* l.79: the loop is exhausted.
ReadTxtFails(r) ==
    /\ pc[r] = "txt_try"
    /\ di[r] > Len(delimiters)
    /\ Raise(r, "ValueError")
    /\ UNCHANGED <<runs, file_type, report_file, file_extension, verdict,
                   validation_results, data, di, vi, read_calls, ValidationResults>>

\* l.119
ValidateHeaders(r) ==
    /\ pc[r] = "headers"
    /\ data[r].bound
    /\ verdict' = [verdict EXCEPT ![r] = validate_headers(data[r])]
    /\ pc' = [pc EXCEPT ![r] = "ins_headers"]
    /\ UNCHANGED <<runs, file_type, report_file, file_extension, validation_results,
                   data, di, vi, exc, response, read_calls, ValidationResults>>

\* l.119 reading the unbound local data: UnboundLocalError.
DataUnbound(r) ==
    /\ pc[r] = "headers"
    /\ ~data[r].bound
    /\ Raise(r, "UnboundLocalError")
    /\ UNCHANGED <<runs, file_type, report_file, file_extension, verdict,
                   validation_results, data, di, vi, read_calls, ValidationResults>>

\* l.124
CheckNullValues(r) ==
    /\ pc[r] = "nulls"
    /\ verdict' = [verdict EXCEPT ![r] = check_null_values(data[r])]
    /\ pc' = [pc EXCEPT ![r] = "ins_nulls"]
    /\ UNCHANGED <<runs, file_type, report_file, file_extension, validation_results,
                   data, di, vi, exc, response, read_calls, ValidationResults>>

\* l.129
CheckEmptyRows(r) ==
    /\ pc[r] = "empty"
    /\ verdict' = [verdict EXCEPT ![r] = check_empty_rows(data[r])]
    /\ pc' = [pc EXCEPT ![r] = "ins_empty"]
    /\ UNCHANGED <<runs, file_type, report_file, file_extension, validation_results,
                   data, di, vi, exc, response, read_calls, ValidationResults>>

\* l.134-141: some result carries the cross: the rejection is returned.
Reject(r) ==
    /\ pc[r] = "aggregate"
    /\ AnyFailed(validation_results[r])
    /\ response' = [response EXCEPT ![r] = RejectedResponse(validation_results[r])]
    /\ pc' = [pc EXCEPT ![r] = "done"]
    /\ UNCHANGED <<runs, file_type, report_file, file_extension, verdict,
                   validation_results, data, di, vi, exc, read_calls,
                   ValidationResults>>

\* l.134, 144: no result carries the cross: the second loop starts.
BeginSecondPass(r) ==
    /\ pc[r] = "aggregate"
    /\ ~AnyFailed(validation_results[r])
    /\ vi' = [vi EXCEPT ![r] = 1]
    /\ pc' = [pc EXCEPT ![r] = "second_pass"]
    /\ UNCHANGED <<runs, file_type, report_file, file_extension, verdict,
                   validation_results, data, di, exc, response, read_calls,
                   ValidationResults>>

\* l.144-145: one pass of the loop over validation_results.
InsertValidation(r) ==
    /\ pc[r] = "second_pass"
    /\ vi[r] <= Len(validation_results[r])
    /\ ValidationResults' =
          insert_validation_result(ValidationResults, r, report_file[r].filename,
                                   "Validation", validation_results[r][vi[r]])
    /\ vi' = [vi EXCEPT ![r] = @ + 1]
    /\ UNCHANGED <<runs, file_type, report_file, pc, file_extension, verdict,
                   validation_results, data, di, exc, response, read_calls>>

\* l.148-154: the loop is over: the success response is returned.
Accept(r) ==
    /\ pc[r] = "second_pass"
    /\ vi[r] > Len(validation_results[r])
    /\ response' = [response EXCEPT ![r] = AcceptedResponse(validation_results[r])]
    /\ pc' = [pc EXCEPT ![r] = "done"]
    /\ UNCHANGED <<runs, file_type, report_file, file_extension, verdict,
                   validation_results, data, di, vi, exc, read_calls,
                   ValidationResults>>

Next ==
    \/ \E r \in runs : CheckExtension(r)
    \/ \E r \in runs : InsertMismatch(r)
    \/ \E r \in runs : ValidateFileName(r)
    \/ \E r \in runs : ValidateFileSize(r)
    \/ \E r \in runs : InsertVerdict(r)
    \/ \E r \in runs : InsertFails(r)
    \/ \E r \in runs : ReadCsv(r)
    \/ \E r \in runs : EnterReadTxt(r)
    \/ \E r \in runs : SkipRead(r)
    \/ \E r \in runs : TryDelimiter(r)
    \/ \E r \in runs : ReadTxtFails(r)
    \/ \E r \in runs : ValidateHeaders(r)
    \/ \E r \in runs : DataUnbound(r)
    \/ \E r \in runs : CheckNullValues(r)
    \/ \E r \in runs : CheckEmptyRows(r)
    \/ \E r \in runs : Reject(r)
    \/ \E r \in runs : BeginSecondPass(r)
    \/ \E r \in runs : InsertValidation(r)
    \/ \E r \in runs : Accept(r)

Spec == Init /\ [][Next]_vars

\* ------------------------------------------------------ concurrent requests
\* A request: the two parameters of process_files.
Request(type, name, header, body, d) ==
    [file_type |-> type,
     report_file |-> [filename |-> name, size |-> FileSizeLimitBytes,
                      content |-> Content(header, body, d), pos |-> 0]]

SwappedHeader ==
    << <<"ADDRESS">>, <<"CUSTOMER">>, <<"PRODUCT">>, <<"PRODUCT_TYPE">>, <<"PRICE">> >>

\* Requests that end within two inserts: a txt upload no delimiter parses,
\* a type mismatch, a declared type that no branch reads.
ShortRequests ==
    << Request(<<"t","x","t">>, <<"a"," ","b",".","t","x","t">>,
               SwappedHeader, <<"full">>, TAB),
       Request(<<"c","s","v">>, <<"a"," ","b",".","t","x","t">>,
               ALLOWED_HEADERS, <<"full">>, TAB),
       Request(<<"j","s","o","n">>, <<"d",".","j","s","o","n">>,
               ALLOWED_HEADERS, <<"full">>, COMMA) >>

\* The requests served together: the short ones, a csv upload rejected for
\* its name and a null cell, an accepted csv upload and a space-delimited txt
\* upload rejected for its whitespace row.
ConcurrentRequests ==
    {ShortRequests[k] : k \in 1..Len(ShortRequests)}
    \cup { Request(<<"c","s","v">>, <<"b","@","d",".","c","s","v">>,
                   ALLOWED_HEADERS, <<"null">>, COMMA),
           Request(<<"c","s","v">>, <<"R","1",".","c","s","v">>,
                   ALLOWED_HEADERS, <<"full">>, COMMA),
           Request(<<"t","x","t">>, <<"a"," ","b",".","t","x","t">>,
                   ALLOWED_HEADERS, <<"ws">>, SPACE) }

\* One request alone, or up to MaxRuns in flight at once whose steps
\* interleave: any request together with the first short ones.
InitConcurrent ==
    \E R \in {1..n : n \in 1..MaxRuns} :
        \E q \in [R -> ConcurrentRequests] :
            /\ \A r \in R : r # 1 => q[r] = ShortRequests[r - 1]
            /\ runs = R
            /\ file_type = [r \in R |-> q[r].file_type]
            /\ report_file = [r \in R |-> q[r].report_file]
            /\ pc = [r \in R |-> "start"]
            /\ file_extension = [r \in R |-> <<>>]
            /\ verdict = [r \in R |-> <<>>]
            /\ validation_results = [r \in R |-> <<>>]
            /\ data = [r \in R |-> NoData]
            /\ di = [r \in R |-> 0]
            /\ vi = [r \in R |-> 0]
            /\ exc = [r \in R |-> "none"]
            /\ response = [r \in R |-> NoResponse]
            /\ read_calls = [r \in R |-> <<>>]
            /\ ValidationResults = <<>>

SpecConcurrent == InitConcurrent /\ [][Next]_vars

\* ------------------------------------------------- vocabulary of the claims
\* The rows of the table that run r inserted, in insertion order.
RunLog(r) ==
    LET Mine(rec) == rec.run = r
    IN  SelectSeq(ValidationResults, Mine)

RuleLog(r) == [i \in 1..Len(RunLog(r)) |-> RunLog(r)[i].validation_rule]
ResultLog(r) == [i \in 1..Len(RunLog(r)) |-> RunLog(r)[i].result]

FiveRules == <<"File Name", "File Size", "Headers", "Null Values", "Empty Rows">>
Repeat(x, n) == [i \in 1..n |-> x]

IsPrefix(s, t) == Len(s) <= Len(t) /\ s = SubSeq(t, 1, Len(s))

Done(r) == pc[r] = "done"

\* The three outcomes a caller can tell apart from the response.
Accepted(r) == Done(r) /\ response[r].key = "message"
Rejected(r) ==
    /\ Done(r)
    /\ response[r].key = "error"
    /\ response[r].content[1] \in {"File Rejected:", "File type mismatch. Expected "}
ErrorOutcome(r) == Done(r) /\ response[r].key = "error" /\ ~Rejected(r)
GenericError(r) ==
    ErrorOutcome(r) /\ response[r].content[1] = "An unexpected error occurred: "

RecorderFailed(r) == exc[r] = "pyodbc.Error"

\* The extension as the file carries it, before any case folding.
RawExtension(r) == DropFirst(splitext(report_file[r].filename)[2])
DiffersIgnoringCase(r) == str_lower(file_type[r]) # str_lower(RawExtension(r))

\* No statement after the extension check has run.
OnlyExtensionCheckRan(r) ==
    /\ pc[r] \in {"start", "ins_type", "done"}
    /\ validation_results[r] = <<>>
    /\ read_calls[r] = <<>>
    /\ ~data[r].bound
    /\ IsPrefix(RuleLog(r), <<"File Type">>)

\* ------------------------------------------------------------------ claims
\* C1 as stated: every finished run whose declared type differs from the
\* file's extension, compared case-insensitively, is a rejection with exactly
\* one record, the 'File Type' failure, and nothing else executed.
C1_AsStated ==
    \A r \in runs :
        Done(r) /\ DiffersIgnoringCase(r) =>
            Rejected(r) /\ RuleLog(r) = <<"File Type">> /\ OnlyExtensionCheckRan(r)

\* C1 amended: in a run whose declared type differs from the file's extension,
\* compared case-insensitively, no step other than the extension check ever
\* executes or is recorded; when the Recorder call succeeds the run ends
\* rejected with exactly one record, the 'File Type' failure message; when the
\* Recorder call fails it ends with a generic error and no record.
C1_MismatchRejectsWithOneRecord ==
    \A r \in runs :
        DiffersIgnoringCase(r) =>
            /\ OnlyExtensionCheckRan(r)
            /\ Done(r) /\ ~RecorderFailed(r) =>
                  /\ Rejected(r)
                  /\ response[r].content = MismatchMessage(file_type[r])
                  /\ HasCross(response[r].content)
                  /\ RuleLog(r) = <<"File Type">>
                  /\ ResultLog(r) = <<MismatchMessage(file_type[r])>>
            /\ Done(r) /\ RecorderFailed(r) => GenericError(r) /\ RunLog(r) = <<>>

\* Scenario D: declared csv, a .txt upload, rejected with the one record.
C1_Witness ==
    \E r \in runs :
        /\ file_type[r] = <<"c","s","v">>
        /\ RawExtension(r) = <<"t","x","t">>
        /\ Rejected(r)
        /\ RuleLog(r) = <<"File Type">>

\* What each of the five rules returns for the upload and the table of run r.
ExpectedVerdicts(r) ==
    << validate_file_name(report_file[r].filename),
       validate_file_size(report_file[r].size),
       validate_headers(data[r]),
       check_null_values(data[r]),
       check_empty_rows(data[r]) >>

\* C2 as stated: every finished run in which the extension matched and the
\* parse succeeded has evaluated and recorded the five verdicts.
C2_AsStated ==
    \A r \in runs :
        Done(r) /\ data[r].bound =>
            /\ Len(validation_results[r]) = 5
            /\ IsPrefix(FiveRules, RuleLog(r))

\* C2 amended: in every run where the extension matched, the parse succeeded
\* and no Recorder call fails, exactly the five verdicts File Name, File
\* Size, Headers, Null Values, Empty Rows are evaluated and recorded, in that
\* order, whichever of them fail.
C2_AllFiveRunAndRecorded ==
    \A r \in runs :
        data[r].bound /\ ~RecorderFailed(r) =>
            /\ IsPrefix(RuleLog(r), FiveRules \o Repeat("Validation", 5))
            /\ IsPrefix(validation_results[r], ExpectedVerdicts(r))
            /\ Done(r) =>
                  /\ validation_results[r] = ExpectedVerdicts(r)
                  /\ SubSeq(RuleLog(r), 1, 5) = FiveRules
                  /\ SubSeq(ResultLog(r), 1, 5) = validation_results[r]

\* Scenario B: the File Name verdict failed, the other four passed, and all
\* five are in the table.
C2_Witness ==
    \E r \in runs :
        /\ Done(r)
        /\ data[r].bound
        /\ Len(validation_results[r]) = 5
        /\ Failing(validation_results[r]) = <<validate_file_name(<<"b","@","d",".","c","s","v">>)>>
        /\ RuleLog(r) = FiveRules

\* C3: a run is accepted only when all five verdicts passed, and then the
\* table holds, for the run, the five rule-named records followed by the same
\* five results under 'Validation', ten in all; a run in which a verdict
\* failed never has a 'Validation' record.
C3_AcceptedRecordsTwice ==
    \A r \in runs :
        /\ Accepted(r) =>
              /\ validation_results[r] = ExpectedVerdicts(r)
              /\ ~AnyFailed(validation_results[r])
              /\ Len(RunLog(r)) = 10
              /\ RuleLog(r) = FiveRules \o Repeat("Validation", 5)
              /\ ResultLog(r) = validation_results[r] \o validation_results[r]
        /\ (\E i \in 1..Len(validation_results[r]) : HasCross(validation_results[r][i]))
             \/ HasCross(verdict[r])
           => "Validation" \notin Range(RuleLog(r))

\* Scenario A: an accepted run with its ten records.
C3_Witness ==
    \E r \in runs : Accepted(r) /\ Len(RunLog(r)) = 10

\* C4 as stated (granting it the runs whose Recorder call fails): a finished
\* run is accepted if and only if its verdict sequence is non-empty and every
\* verdict in it passed.
C4_AsStated ==
    \A r \in runs :
        Done(r) /\ ~RecorderFailed(r) =>
            (Accepted(r) <=>
                /\ validation_results[r] # <<>>
                /\ \A i \in 1..Len(validation_results[r]) :
                      ~HasCross(validation_results[r][i]))

\* C4 amended: a finished run is accepted if and only if it ended without an
\* error (no parse failure, no Recorder failure, no other exception), its
\* verdict sequence is non-empty and every verdict in it passed; a run that
\* exits early on extension mismatch, has a failing verdict or ends with an
\* error is never accepted.
C4_AcceptedIffAllPassedNoError ==
    \A r \in runs :
        Done(r) =>
            (Accepted(r) <=>
                /\ exc[r] = "none"
                /\ validation_results[r] # <<>>
                /\ \A i \in 1..Len(validation_results[r]) :
                      ~HasCross(validation_results[r][i]))

\* A finished run with passing verdicts only that is not accepted (its parse
\* failed), next to the accepted case of C3_Witness.
C4_Witness ==
    \E r \in runs :
        /\ Done(r)
        /\ ~Accepted(r)
        /\ exc[r] \in ValueErrors
        /\ Len(validation_results[r]) = 2
        /\ \A i \in 1..2 : ~HasCross(validation_results[r][i])

\* The upload of run r cannot be parsed: as comma-delimited for a csv, under
\* none of the three delimiters with the required columns for a txt.
ParseFails(r) ==
    \/ /\ file_extension[r] = <<"c","s","v">>
       /\ pd_read_csv(report_file[r].content, COMMA).raised # "none"
    \/ /\ file_extension[r] = <<"t","x","t">>
       /\ \A d \in {TAB, COMMA, SPACE} :
             LET res == pd_read_csv(report_file[r].content, d)
             IN  res.raised # "none" \/ res.columns # ALLOWED_HEADERS

\* C5: when the parse fails after the extension matched, the run ends with an
\* error outcome, not a rejection; the File Name and File Size verdicts stay
\* recorded, exactly two records, and no Headers, Null Values, Empty Rows or
\* 'Validation' record is written.
C5_ParseFailureIsError ==
    \A r \in runs :
        Done(r) /\ read_calls[r] # <<>> /\ ParseFails(r) =>
            /\ ErrorOutcome(r)
            /\ ~Rejected(r) /\ ~Accepted(r)
            /\ exc[r] \in ValueErrors
            /\ ~data[r].bound
            /\ RuleLog(r) = <<"File Name", "File Size">>
            /\ ResultLog(r) = validation_results[r]
            /\ validation_results[r] =
                  << validate_file_name(report_file[r].filename),
                     validate_file_size(report_file[r].size) >>

\* A txt upload with a wrong header line: ValueError from read_txt_file, two
\* records.
C5_Witness ==
    \E r \in runs :
        /\ Done(r)
        /\ exc[r] = "ValueError"
        /\ ParseFails(r)
        /\ Len(RunLog(r)) = 2

\* C6 as stated (granting it the runs whose Recorder call fails): a finished
\* run whose declared type is neither csv nor txt is a rejection with the
\* single 'File Type' record, never a generic error, whatever the file name.
C6_AsStated ==
    \A r \in runs :
        /\ Done(r)
        /\ file_type[r] \notin {<<"c","s","v">>, <<"t","x","t">>}
        /\ ~RecorderFailed(r)
        => /\ Rejected(r)
           /\ ~GenericError(r)
           /\ RuleLog(r) = <<"File Type">>

\* C7 as stated: when the declared type and the file's extension are equal
\* with letter case ignored in both, the extension check passes and control
\* goes on to File Name: the mismatch is never recorded.
C7_AsStated ==
    \A r \in runs :
        pc[r] # "start" /\ ~DiffersIgnoringCase(r) =>
            /\ pc[r] # "ins_type"
            /\ "File Type" \notin Range(RuleLog(r))

\* The delimiters in the order read_txt_file is to try them.
TabCommaSpace == <<TAB, COMMA, SPACE>>

\* The required columns come out of reading the whole content with delimiter d.
MatchesUnder(content, d) ==
    LET res == pd_read_csv(content, d)
    IN  res.raised = "none" /\ res.columns = ALLOWED_HEADERS

\* C8: for a txt upload the read calls are made with tab, comma, space in
\* that order, each from stream position 0; the table returned is the one of
\* the first delimiter under which the columns are the required ones, every
\* earlier attempt (raising or not) having been skipped; ValueError is raised
\* only after all three attempts, none of which matched.
C8_ReadTxtFirstMatchingDelimiter ==
    \A r \in runs :
        file_extension[r] = <<"t","x","t">> =>
            LET k == Len(read_calls[r])
                content == report_file[r].content
            IN  /\ IsPrefix(read_calls[r],
                            [j \in 1..3 |-> [delimiter |-> TabCommaSpace[j], pos |-> 0]])
                /\ data[r].bound =>
                      /\ k >= 1
                      /\ MatchesUnder(content, TabCommaSpace[k])
                      /\ data[r] = DataFrame(pd_read_csv(content, TabCommaSpace[k]))
                      /\ \A j \in 1..(k - 1) : ~MatchesUnder(content, TabCommaSpace[j])
                /\ exc[r] = "ValueError" =>
                      /\ k = 3
                      /\ ~data[r].bound
                      /\ \A j \in 1..3 : ~MatchesUnder(content, TabCommaSpace[j])
                /\ di[r] >= 1 /\ pc[r] # "txt_try" =>
                      data[r].bound \/ exc[r] = "ValueError"

\* Scenario C, with a first attempt that raises: the tab read fails to
\* tokenize, the comma read has other columns, the space read is returned.
C8_Witness ==
    \E r \in runs :
        /\ file_extension[r] = <<"t","x","t">>
        /\ data[r].bound
        /\ Len(read_calls[r]) = 3
        /\ pd_read_csv(report_file[r].content, TAB).raised = "ParserError"
        /\ Done(r)

\* The table rows of run r when its Recorder call failed: the records of the
\* inserts that succeeded before it, and not the one that failed.
LogBeforeFailure(r) ==
    IF vi[r] = 0
    THEN SubSeq(FiveRules, 1, Len(validation_results[r]))
    ELSE FiveRules \o Repeat("Validation", vi[r] - 1)

\* C9: once a Recorder call of a run has failed, in the first or in the second
\* pass, the run is over with a generic error and is not accepted; the failed
\* insert is not in the table, and from then on the run evaluates no rule and
\* writes no record.
C9_RecorderFailureAborts ==
    /\ [](\A r \in runs :
            RecorderFailed(r) =>
                /\ Done(r)
                /\ GenericError(r)
                /\ ~Accepted(r) /\ ~Rejected(r)
                /\ vi[r] <= 5
                /\ RuleLog(r) = LogBeforeFailure(r))
    /\ [][\A r \in runs :
            RecorderFailed(r) =>
                /\ RunLog(r)' = RunLog(r)
                /\ <<pc[r], verdict[r], validation_results[r], data[r], vi[r], di[r],
                     read_calls[r], response[r], exc[r]>>'
                   = <<pc[r], verdict[r], validation_results[r], data[r], vi[r], di[r],
                       read_calls[r], response[r], exc[r]>>]_vars

\* A Recorder failure during the second pass, after three 'Validation' rows.
C9_Witness ==
    \E r \in runs :
        /\ RecorderFailed(r)
        /\ vi[r] = 4
        /\ Len(RunLog(r)) = 8

\* The statements at which a rule, or the parse, starts, and the number of
\* verdicts produced before each.
VerdictsBefore(at) ==
    CASE at = "name" -> 0
      [] at = "size" -> 1
      [] at \in {"read", "txt_try", "headers"} -> 2
      [] at = "nulls" -> 3
      [] at = "empty" -> 4
      [] at = "aggregate" -> 5

RuleStarts == {"name", "size", "read", "txt_try", "headers", "nulls", "empty", "aggregate"}

\* C10: whenever the next rule, the parse or the aggregation is about to
\* start, every verdict produced so far is already in the table: the run's
\* records are the verdicts produced, in production order, under the rules'
\* names; while a verdict awaits its insert, the earlier ones are all there.
C10_RecordedBeforeNextRule ==
    \A r \in runs :
        /\ pc[r] \in RuleStarts =>
              /\ Len(validation_results[r]) = VerdictsBefore(pc[r])
              /\ ResultLog(r) = validation_results[r]
              /\ RuleLog(r) = SubSeq(FiveRules, 1, Len(validation_results[r]))
              /\ validation_results[r] # <<>> =>
                    verdict[r] = validation_results[r][Len(validation_results[r])]
        /\ pc[r] \in InsertPcs =>
              /\ ResultLog(r) = validation_results[r]
              /\ RuleLog(r) = SubSeq(FiveRules, 1, Len(validation_results[r]))

\* All five verdicts produced and recorded, the aggregation about to start.
C10_Witness ==
    \E r \in runs :
        /\ pc[r] = "aggregate"
        /\ Len(RunLog(r)) = 5
        /\ ResultLog(r) = validation_results[r]

\* The messages a response surfaces: the token runs between <li> and </li>.
FirstIndex(s, tok) ==
    IF \E i \in 1..Len(s) : s[i] = tok
    THEN CHOOSE i \in 1..Len(s) : s[i] = tok /\ \A j \in 1..(i - 1) : s[j] # tok
    ELSE 0

RECURSIVE Surfaced(_)
Surfaced(content) ==
    LET open == FirstIndex(content, "<li>")
        close == FirstIndex(content, "</li>")
    IN  IF open = 0 \/ close < open THEN <<>>
        ELSE <<SubSeq(content, open + 1, close - 1)>>
                \o Surfaced(SubSeq(content, close + 1, Len(content)))

\* The verdicts of run r that carry the failure mark, in production order.
FailedVerdicts(r) ==
    LET Bad(result) == \E i \in 1..Len(result) : result[i] = CROSS
    IN  SelectSeq(ExpectedVerdicts(r), Bad)

\* C11: a rejection after the five rules surfaces exactly the verdicts that
\* failed, none that passed, in the order the rules ran; the rejection of a
\* type mismatch surfaces the mismatch message alone; an acceptance surfaces
\* the verdict of every rule, in the order the rules ran.
C11_SurfacedMessages ==
    \A r \in runs :
        /\ Rejected(r) /\ response[r].content[1] = "File Rejected:" =>
              /\ Surfaced(response[r].content) = FailedVerdicts(r)
              /\ FailedVerdicts(r) # <<>>
              /\ response[r].content =
                    <<"File Rejected:">> \o ListItems(FailedVerdicts(r))
        /\ Rejected(r) /\ response[r].content[1] # "File Rejected:" =>
              /\ response[r].content = MismatchMessage(file_type[r])
              /\ Surfaced(response[r].content) = <<>>
        /\ Accepted(r) =>
              /\ Surfaced(response[r].content) = ExpectedVerdicts(r)
              /\ Len(Surfaced(response[r].content)) = 5
              /\ ResultLog(r) = ExpectedVerdicts(r) \o ExpectedVerdicts(r)

\* A rejection in which two rules failed and three passed.
C11_Witness ==
    \E r \in runs :
        /\ Rejected(r)
        /\ Len(Surfaced(response[r].content)) = 2
        /\ Len(validation_results[r]) = 5

\* C12: the File Size verdict of every run that produced it passes when the
\* upload has at most 10240 bytes and fails when it has more: 10240 bytes
\* pass, 10241 bytes fail; the verdict is recorded under 'File Size'.
C12_SizeBoundary ==
    \A r \in runs :
        Len(validation_results[r]) >= 2 =>
            /\ report_file[r].size <= 10240 =>
                  validation_results[r][2] = <<"File size is valid. ", CHECK>>
            /\ report_file[r].size > 10240 =>
                  validation_results[r][2] = <<"File size must be under 10 KB. ", CROSS>>
            /\ pc[r] = "read" =>
                  /\ RuleLog(r)[2] = "File Size"
                  /\ ResultLog(r)[2] = validation_results[r][2]

\* An upload of exactly 10240 bytes whose File Size verdict passed and is
\* recorded.
C12_Witness ==
    \E r \in runs :
        /\ report_file[r].size = 10240
        /\ pc[r] = "read"
        /\ ResultLog(r)[2] = <<"File size is valid. ", CHECK>>

\* C13 as stated: the File Name verdict fails when the base name (the file
\* name without its extension) is empty or holds a character outside
\* [A-Za-z0-9 ], and passes when it is one or more characters of that class.
C13_AsStated ==
    \A r \in runs :
        Len(validation_results[r]) >= 1 =>
            LET base_name == splitext(report_file[r].filename)[1]
                Outside == \E i \in 1..Len(base_name) : ~NameChar(base_name[i])
            IN  IF base_name = <<>> \/ Outside
                THEN validation_results[r][1] = <<"File name is invalid. ", CROSS>>
                ELSE validation_results[r][1] = <<"File name is valid. ", CHECK>>

\* What a request gives when it is served alone and no insert fails: the
\* rules composed in program order.
SoloRead(file_name, content) ==
    LET extension == FileExtension(file_name)
        Parsed(k) == pd_read_csv(content, delimiters[k])
        Tried == {k \in 1..Len(delimiters) : TableAccepted(Parsed(k))}
    IN  IF extension = <<"c","s","v">>
        THEN pd_read_csv(content, COMMA)
        ELSE IF extension = <<"t","x","t">>
        THEN IF Tried = {} THEN [NoFrame EXCEPT !.raised = "ValueError"]
             ELSE Parsed(CHOOSE k \in Tried : \A j \in Tried : k <= j)
        ELSE [NoFrame EXCEPT !.raised = "UnboundLocalError"]

SoloVerdicts(file, table) ==
    << validate_file_name(file.filename),
       validate_file_size(file.size),
       validate_headers(table),
       check_null_values(table),
       check_empty_rows(table) >>

SoloResponse(type, file) ==
    LET res == SoloRead(file.filename, file.content)
        verdicts == SoloVerdicts(file, res)
    IN  IF FileExtension(file.filename) # type
        THEN [key |-> "error", content |-> MismatchMessage(type)]
        ELSE IF res.raised # "none" THEN HandlerResponse(res.raised)
        ELSE IF \E i \in 1..5 : HasCross(verdicts[i])
        THEN [key |-> "error",
              content |-> <<"File Rejected:">>
                          \o ListItems(SelectSeq(verdicts, HasCross))]
        ELSE [key |-> "message",
              content |-> <<"File Validation Results:">> \o ListItems(verdicts)]

\* The <<rule, result>> pairs the request leaves in the table.
SoloRecords(type, file) ==
    LET res == SoloRead(file.filename, file.content)
        verdicts == SoloVerdicts(file, res)
        Named(n) == [i \in 1..n |-> <<FiveRules[i], verdicts[i]>>]
    IN  IF FileExtension(file.filename) # type
        THEN << <<"File Type", MismatchMessage(type)>> >>
        ELSE IF res.raised # "none" THEN Named(2)
        ELSE IF \E i \in 1..5 : HasCross(verdicts[i]) THEN Named(5)
        ELSE Named(5) \o [i \in 1..5 |-> <<"Validation", verdicts[i]>>]

RecordLog(r) ==
    [i \in 1..Len(RunLog(r)) |-> <<RunLog(r)[i].validation_rule, RunLog(r)[i].result>>]

\* C14: requests in flight together do not interfere.  Whatever the
\* interleaving, the records of a run appear in the table in the order that
\* run executed, as a prefix of what the same request leaves when served
\* alone; a run that finishes without an insert failure has the response and
\* the records of the request served alone; every row carries the file name
\* of the run that inserted it.
C14_RunsDoNotInterfere ==
    /\ \A r \in runs :
          /\ IsPrefix(RecordLog(r), SoloRecords(file_type[r], report_file[r]))
          /\ Done(r) /\ ~RecorderFailed(r) =>
                /\ response[r] = SoloResponse(file_type[r], report_file[r])
                /\ RecordLog(r) = SoloRecords(file_type[r], report_file[r])
          /\ Done(r) /\ RecorderFailed(r) => GenericError(r)
    /\ \A i \in 1..Len(ValidationResults) :
          /\ ValidationResults[i].run \in runs
          /\ ValidationResults[i].file_name =
                report_file[ValidationResults[i].run].filename

\* Two runs finished without an insert failure, one of them accepted, whose
\* rows alternate in the table.
C14_Witness ==
    /\ \A r \in runs : Done(r) /\ ~RecorderFailed(r)
    /\ \E r \in runs : Accepted(r)
    /\ \E i, j, k, l \in 1..Len(ValidationResults) :
          /\ i < j /\ j < k /\ k < l
          /\ ValidationResults[i].run = 1
          /\ ValidationResults[j].run = 2
          /\ ValidationResults[k].run = 1
          /\ ValidationResults[l].run = 2

\* The five required names, in the required order.
RequiredNames ==
    << <<"CUSTOMER">>, <<"ADDRESS">>, <<"PRODUCT">>, <<"PRODUCT_TYPE">>, <<"PRICE">> >>

\* The same names up to order, and up to letter case.
SameNameSet(columns) == Range(columns) = Range(RequiredNames)
SameIgnoringCase(columns) ==
    /\ Len(columns) = Len(RequiredNames)
    /\ \A i \in 1..Len(columns) : str_lower(columns[i]) = str_lower(RequiredNames[i])

\* C15: the Headers verdict of every run that produced it passes exactly when
\* the table's column names are the five required names as a sequence, same
\* order and same letter case: a permutation, a case variant, a missing or an
\* extra column fails.
C15_HeadersExactSequence ==
    \A r \in runs :
        Len(validation_results[r]) >= 3 =>
            LET columns == data[r].columns
                passed == validation_results[r][3] = <<"Headers matched. ", CHECK>>
                failed == validation_results[r][3] = <<"Headers are not matching. ", CROSS>>
            IN  /\ data[r].bound
                /\ passed \/ failed
                /\ passed <=> columns = RequiredNames
                /\ SameNameSet(columns) /\ columns # RequiredNames => failed
                /\ SameIgnoringCase(columns) /\ columns # RequiredNames => failed
                /\ Len(columns) # 5 => failed

\* A csv upload whose header line is a permutation of the required names: the
\* Headers verdict failed and is recorded.
C15_Witness ==
    \E r \in runs :
        /\ Len(RunLog(r)) >= 3
        /\ SameNameSet(data[r].columns)
        /\ data[r].columns # RequiredNames
        /\ ResultLog(r)[3] = <<"Headers are not matching. ", CROSS>>

\* A row of the table whose every cell is missing or holds only whitespace.
EmptyRow(row) == \A j \in 1..Len(row) : IsBlank(row[j])

\* C16: the Empty Rows verdict of every run that produced it fails when the
\* table has a row whose every cell is empty or whitespace-only and passes
\* when it has none; the parser keeps a blank line of the file as a row of
\* missing cells, so the table has one row per line after the header line.
C16_EmptyRows ==
    \A r \in runs :
        /\ data[r].bound =>
              /\ Len(data[r].rows) = Len(report_file[r].content) - 1
              /\ \A i \in 1..Len(data[r].rows) :
                    report_file[r].content[i + 1] = <<>> =>
                        /\ data[r].rows[i] # <<>>
                        /\ \A j \in 1..Len(data[r].rows[i]) : data[r].rows[i][j] = <<>>
        /\ Len(validation_results[r]) = 5 =>
              IF \E i \in 1..Len(data[r].rows) : EmptyRow(data[r].rows[i])
              THEN validation_results[r][5] =
                      <<"Uploaded file contains empty rows. ", CROSS>>
              ELSE validation_results[r][5] =
                      <<"Uploaded file does not contain empty rows. ", CHECK>>

\* An upload whose only data row holds nothing but whitespace: the Empty Rows
\* verdict failed and is recorded, the Null Values verdict passed.
C16_Witness ==
    \E r \in runs :
        /\ Len(RunLog(r)) = 5
        /\ Len(data[r].rows) = 1
        /\ \A j \in 1..Len(data[r].rows[1]) :
              data[r].rows[1][j] # <<>> /\ IsBlank(data[r].rows[1][j])
        /\ ResultLog(r)[5] = <<"Uploaded file contains empty rows. ", CROSS>>
        /\ ResultLog(r)[4] = <<"Uploaded file does not contain null values. ", CHECK>>

\* C17: the Null Values verdict of every run that produced it fails when at
\* least one cell of the table is empty or missing and passes when none is.
C17_NullValues ==
    \A r \in runs :
        Len(validation_results[r]) >= 4 =>
            IF \E i \in 1..Len(data[r].rows) :
                  \E j \in 1..Len(data[r].rows[i]) : IsNull(data[r].rows[i][j])
            THEN validation_results[r][4] =
                    <<"Uploaded file contains null values. ", CROSS>>
            ELSE validation_results[r][4] =
                    <<"Uploaded file does not contain null values. ", CHECK>>

\* A table with one missing cell among filled ones: the Null Values verdict
\* failed and is recorded.
C17_Witness ==
    \E r \in runs :
        /\ Len(RunLog(r)) >= 4
        /\ \E i \in 1..Len(data[r].rows) :
              /\ \E j \in 1..Len(data[r].rows[i]) : IsNull(data[r].rows[i][j])
              /\ \E j \in 1..Len(data[r].rows[i]) : ~IsNull(data[r].rows[i][j])
        /\ ResultLog(r)[4] = <<"Uploaded file contains null values. ", CROSS>>

\* How far a run has got: its statement, then the indices of its two loops.
Rank(at) ==
    CASE at = "start" -> 0
      [] at \in {"ins_type", "name"} -> 1
      [] at = "ins_name" -> 2
      [] at = "size" -> 3
      [] at = "ins_size" -> 4
      [] at = "read" -> 5
      [] at = "txt_try" -> 6
      [] at = "headers" -> 7
      [] at = "ins_headers" -> 8
      [] at = "nulls" -> 9
      [] at = "ins_nulls" -> 10
      [] at = "empty" -> 11
      [] at = "ins_empty" -> 12
      [] at = "aggregate" -> 13
      [] at = "second_pass" -> 14
      [] at = "done" -> 15

Progress(r) == Rank(pc[r]) * 16 + di[r] + vi[r]

\* The failures that are not rule failures: anything raised inside the try.
Failures == ValueErrors \cup {"UnboundLocalError", "pyodbc.Error"}

\* C18: every run terminates with exactly one of the outcomes accepted,
\* rejected, error.  A run that is not over can take a step, every step moves
\* a run forward in a bounded order, so no run goes on for ever; a finished
\* run has a response of exactly one kind; a failure that is not a rule
\* failure ends the run at once with an error response, never an acceptance or
\* a rejection, and a run without such a failure ends accepted or rejected.
C18_TerminatesWithOneOutcome ==
    /\ [](\A r \in runs :
            /\ ~Done(r) => ENABLED <<Next>>_vars
            /\ Progress(r) <= Rank("done") * 16 + 16
            /\ ~Done(r) => response[r] = NoResponse /\ exc[r] = "none"
            /\ Done(r) =>
                  /\ response[r].key \in {"message", "error"}
                  /\ response[r].content # <<>>
                  /\ Cardinality({o \in {"accepted", "rejected", "error"} :
                        \/ o = "accepted" /\ response[r].key = "message"
                        \/ o = "rejected" /\ response[r].key = "error"
                              /\ response[r].content[1] \in
                                    {"File Rejected:", "File type mismatch. Expected "}
                        \/ o = "error" /\ response[r].key = "error"
                              /\ exc[r] \in Failures}) = 1
                  /\ exc[r] # "none" =>
                        /\ exc[r] \in Failures
                        /\ response[r].key = "error"
                        /\ HasCross(response[r].content)
                        /\ response[r].content[1] \notin
                              {"File Rejected:", "File type mismatch. Expected ",
                               "File Validation Results:"}
                  /\ exc[r] = "none" => Accepted(r) \/ Rejected(r))
    /\ [][\A r \in runs :
            /\ Progress(r)' >= Progress(r)
            /\ pc[r]' # pc[r] \/ di[r]' # di[r] \/ vi[r]' # vi[r] =>
                  Progress(r)' > Progress(r)]_vars

\* A run ended by a failure that no rule produced and no except clause
\* names: data was never bound.
C18_Witness ==
    \E r \in runs :
        /\ Done(r)
        /\ exc[r] = "UnboundLocalError"
        /\ GenericError(r)
        /\ Len(RunLog(r)) = 2

\* A run on a .txt upload declared as txt, and a content from which no
\* delimiter yields the required columns.
TxtRun(r) ==
    /\ file_type[r] = <<"t","x","t">>
    /\ str_lower(RawExtension(r)) = <<"t","x","t">>
WrongHeaders(r) ==
    \A k \in 1..Len(TabCommaSpace) : ~MatchesUnder(report_file[r].content, TabCommaSpace[k])

\* The Headers failure appears nowhere in run r: not as a verdict, not in the
\* table, not in the response.
NoHeadersFailure(r) ==
    LET failure == <<"Headers are not matching. ", CROSS>>
    IN  /\ verdict[r] # failure
        /\ \A i \in 1..Len(validation_results[r]) : validation_results[r][i] # failure
        /\ \A i \in 1..Len(RunLog(r)) : RunLog(r)[i].result # failure
        /\ \A i \in 1..Len(response[r].content) :
              response[r].content[i] # "Headers are not matching. "

\* C19 as stated: in a txt run the Headers verdict never fails, and a txt run
\* on wrong headers always ends as a parse error with two records.
C19_AsStated ==
    \A r \in runs :
        TxtRun(r) =>
            /\ NoHeadersFailure(r)
            /\ Done(r) /\ WrongHeaders(r) =>
                  /\ exc[r] = "ValueError"
                  /\ ErrorOutcome(r)
                  /\ RuleLog(r) = <<"File Name", "File Size">>

\* C19 amended: in a txt run the Headers verdict never fails: a table comes
\* out of the parser only with the required columns, so a produced Headers
\* verdict passes and no rejection carries a Headers failure.  A txt run on
\* wrong headers in which no Recorder call fails ends as the parse error of
\* read_txt_file, after three attempts, with exactly the two records File
\* Name and File Size; when a Recorder call fails it ends with a generic
\* error and at most one record.
C19_TxtNeverFailsHeaders ==
    \A r \in runs :
        TxtRun(r) =>
            /\ NoHeadersFailure(r)
            /\ data[r].bound => data[r].columns = RequiredNames
            /\ Len(validation_results[r]) >= 3 =>
                  validation_results[r][3] = <<"Headers matched. ", CHECK>>
            /\ Done(r) /\ WrongHeaders(r) => ~Rejected(r) /\ ~Accepted(r)
            /\ Done(r) /\ WrongHeaders(r) /\ ~RecorderFailed(r) =>
                  /\ exc[r] = "ValueError"
                  /\ ErrorOutcome(r) /\ ~GenericError(r)
                  /\ Len(read_calls[r]) = 3
                  /\ RuleLog(r) = <<"File Name", "File Size">>
            /\ Done(r) /\ WrongHeaders(r) /\ RecorderFailed(r) =>
                  /\ GenericError(r)
                  /\ Len(RunLog(r)) <= 1

\* A txt upload whose tab-separated header line has two names swapped: the
\* read under tab gives a table with the wrong columns, the run ends as a
\* parse error with two records.
C19_Witness ==
    \E r \in runs :
        /\ TxtRun(r)
        /\ pd_read_csv(report_file[r].content, TAB).raised = "none"
        /\ SameNameSet(pd_read_csv(report_file[r].content, TAB).columns)
        /\ WrongHeaders(r)
        /\ Done(r)
        /\ exc[r] = "ValueError"
        /\ Len(RunLog(r)) = 2

\* The two shapes of a run's record log.
MismatchLog == <<"File Type">>
PipelineLog == FiveRules \o Repeat("Validation", 5)

\* C20: in a run where no Recorder call fails the record log is at every
\* moment a prefix of <<'File Type'>> or of the five rule names followed by
\* five times 'Validation'; a finished run has exactly 1, 2, 5 or 10 records:
\* 1 after a type mismatch, 2 when it ended with an error (the parse failed,
\* or the table was never read), 5 when rejected after the rules, 10 when
\* accepted.
C20_RecordCounts ==
    \A r \in runs :
        ~RecorderFailed(r) =>
            /\ IsPrefix(RuleLog(r), MismatchLog) \/ IsPrefix(RuleLog(r), PipelineLog)
            /\ Done(r) =>
                  /\ Len(RunLog(r)) \in {1, 2, 5, 10}
                  /\ Len(RunLog(r)) = 1 <=>
                        response[r].content[1] = "File type mismatch. Expected "
                  /\ Len(RunLog(r)) = 2 <=> ErrorOutcome(r)
                  /\ Len(RunLog(r)) = 5 <=> response[r].content[1] = "File Rejected:"
                  /\ Len(RunLog(r)) = 10 <=> Accepted(r)

\* A run rejected after the five rules, its five records in the table.
C20_Witness ==
    \E r \in runs :
        /\ Done(r)
        /\ ~RecorderFailed(r)
        /\ response[r].content[1] = "File Rejected:"
        /\ RuleLog(r) = FiveRules

====
